---- MODULE Spec2Model ----
(***************************************************************************)
(* A model of the Tabak et al. 2011 reproduction: the parameter-to-trace   *)
(* function of code/tabak.py (tabak, run_simulation, record), the linkage  *)
(* between code/analysis.py and code/tabak.py, and the robustness sweep of *)
(* code/analysis.py (robustness, tabak_parallel, generate_data_figure_2,   *)
(* load_results_figure_2).                                                 *)
(*                                                                         *)
(* Units.  Time is counted in ticks of 0.005 ms, so that the fixed step    *)
(* dt = 0.01 ms is 2 ticks and a simulation_time need not be a multiple of *)
(* dt.  Currents are in pA (noise_amplitude 0.004 nA is 4).  Burstiness    *)
(* factors are in tenths (0 .. 10 stands for 0.0 .. 1.0).                  *)
(***************************************************************************)
EXTENDS Integers, Sequences, FiniteSets, TLC

(***************************************************************************)
(* Bounds of the model (not program constants).                            *)
(***************************************************************************)
\* longest simulation_time explored, in ticks
MaxSimTime == 5
\* largest discard explored, in ticks
MaxDiscard == 3
\* model runs per robustness call (robustness_reruns is 512 in analysis.py:23)
robustness_reruns == 3
\* largest mp.cpu_count() explored
MaxCpu == 4
\* simulation_time of a robustness task, in ticks (60000 ms in analysis.py:19)
TaskSimTime == 2
\* largest accumulated rounding error of nrn.t explored
MaxErr == 1

(***************************************************************************)
(* Program constants.                                                      *)
(***************************************************************************)
\* tabak.py:11  dt = 0.01 ms, in ticks
dt == 2
\* tabak.py:177 nrn.finitialize(-60)
v_init == -60
\* analysis.py:20 noise_amplitude = 0.004 nA, in pA
analysis_noise_amplitude == 4
\* analysis.py:47 np.random.seed(10)
np_random_seed == 10
\* analysis.py:25 A = 3.1415927e-6 cm^2, the unit of area of the model
A == 1
\* analysis.py:245 bins = 10
bins == 10

\* membrane potentials the engine may report (mV): rest and a depolarised value
Voltages == {v_init, -20}

(***************************************************************************)
(* numpy's process-global random generator.  The generator is a            *)
(* deterministic state machine: seeding fixes the state, each draw returns *)
(* a value computed from the state and moves the state on.  It is modelled *)
(* by a full-period congruential generator on 16 states.                   *)
(***************************************************************************)
RngStates == 0 .. 15

seed(n) == n % 16

Twist(s) == (5 * s + 3) % 16

RECURSIVE TwistN(_, _)
TwistN(s, n) == IF n = 0 THEN s ELSE TwistN(Twist(s), n - 1)

\* np.random.normal(size = n): the n samples drawn from state s, in order
RECURSIVE normal(_, _)
normal(s, n) == IF n = 0 THEN << >> ELSE << s >> \o normal(Twist(s), n - 1)

(***************************************************************************)
(* numpy helpers.                                                          *)
(***************************************************************************)
\* int(np.ceil(a / b)) for a >= 0, b > 0
ceil_div(a, b) == (a + b - 1) \div b

\* arr[mask]: the elements of arr at the positions where mask is TRUE, in order
RECURSIVE BoolIndexFrom(_, _, _)
BoolIndexFrom(arr, mask, k) ==
    IF k > Len(arr) THEN << >>
    ELSE (IF mask[k] THEN << arr[k] >> ELSE << >>) \o BoolIndexFrom(arr, mask, k + 1)

BoolIndex(arr, mask) == BoolIndexFrom(arr, mask, 1)

VARIABLES
    \* ---- one call of tabak (code/tabak.py) ----
    sim_pc,            \* position in tabak / run_simulation
    simulation_time,   \* argument, ticks
    noise_amplitude,   \* argument, pA
    discard,           \* argument, ticks
    nrn_t,             \* nrn.t, to the nearest tick
    t_err,             \* accumulated rounding error of nrn.t, in units far below a tick
    nrn_v,             \* soma(0.5).v
    cvode_active,      \* cvode.active()
    rec_t,             \* the Vector recording nrn._ref_t
    rec_v,             \* the Vector recording soma(0.5)._ref_v
    noise,             \* the pre-drawn noise samples
    i,                 \* loop index of the fixed-step loop
    stim_amp,          \* noise_stim.amp
    sim_rng,           \* state of np.random in the process that runs tabak
    time,              \* returned time array
    voltage,           \* returned voltage array
    \* ---- analysis.py resolved against tabak.py ----
    import_idx,        \* names of the import statements resolved so far
    link_calls,        \* call sites (source lines) bound so far
    link_errors,       \* the ImportError / TypeError / NameError raised
    \* ---- the robustness sweep (code/analysis.py) ----
    pc,                \* position of the main process
    exec,              \* which execution of the program this is (1 or 2)
    cpu_count,         \* mp.cpu_count() of the machine
    call,              \* index into the G_BK sweep of the current robustness call
    rng,               \* state of np.random in the main process
    parameters,        \* the parameter rows of the current robustness call
    wrng,              \* per pool worker: state of np.random in that process
    wtask,             \* per pool worker: index of the task it runs, 0 when idle
    next_task,         \* next task index the pool hands out
    results,           \* per task: a Result (pending, raised, or the value returned)
    received,          \* results the for loop has consumed
    burstiness_factors,\* the list the for loop builds
    returned,          \* the tuple robustness returned, << >> before
    sweep,             \* generate_data_figure_2's unpacked locals, per call
    fs,                \* files on disk: path -> contents
    generated,         \* the tuple generate_data_figure_2 returned
    loaded,            \* the tuple load_results_figure_2 returned
    error,             \* the unhandled exception that ended the run, "" if none
    first,             \* what execution 1 produced, kept to compare execution 2
    collected          \* per finished robustness call: its g_BK and the factors its loop built

simVars == << sim_pc, simulation_time, noise_amplitude, discard, nrn_t, t_err, nrn_v,
              cvode_active, rec_t, rec_v, noise, i, stim_amp, sim_rng, time, voltage >>

linkVars == << import_idx, link_calls, link_errors >>

poolVars == << pc, exec, cpu_count, call, rng, parameters, wrng, wtask, next_task,
               results, received, burstiness_factors, returned, sweep, fs,
               generated, loaded, error, first, collected >>

vars == << simVars, linkVars, poolVars >>

\* what a step of tabak leaves alone
simOther == << linkVars, poolVars >>

(***************************************************************************)
(* code/tabak.py                                                           *)
(***************************************************************************)

\* (a finitialize that kept what the Vector held)
finitialize_append(rec, x) == Append(rec, x)

\* A recording Vector at finitialize: emptied, then the initial value recorded.
finitialize_record(rec, x) == << x >>

\* A recording Vector after a step: the new value appended.
step_record(rec, x) == Append(rec, x)

\* tabak is called: create_soma, insert_current_clamp, and run_simulation's
\* record(soma(0.5)) attach two empty Vectors to t and v.
record ==
    /\ UNCHANGED simOther
    /\ sim_pc = "tabak"
    /\ rec_t' = << >>
    /\ rec_v' = << >>
    /\ stim_amp' = 0
    /\ sim_pc' = "recording"
    /\ UNCHANGED << simulation_time, noise_amplitude, discard, nrn_t, t_err, nrn_v,
                    cvode_active, noise, i, sim_rng, time, voltage >>

\* noise_amplitude == 0: cvode.active(1); nrn.finitialize(-60); neuron.init()
init_adaptive ==
    /\ UNCHANGED simOther
    /\ sim_pc = "recording"
    /\ noise_amplitude = 0
    /\ cvode_active' = TRUE
    /\ nrn_t' = 0
    /\ t_err' = 0
    /\ nrn_v' = v_init
    \* finitialize(-60), then neuron.init() finitializes once more
    /\ rec_t' = finitialize_record(finitialize_record(rec_t, 0), 0)
    /\ rec_v' = finitialize_record(finitialize_record(rec_v, v_init), v_init)
    /\ sim_pc' = "run"
    /\ UNCHANGED << simulation_time, noise_amplitude, discard, noise, i, stim_amp,
                    sim_rng, time, voltage >>

\* neuron.run(simulation_time) under CVode: the engine advances by steps of its
\* own choosing, each of positive length, up to exactly tstop.
cvode_step ==
    /\ UNCHANGED simOther
    /\ sim_pc = "run"
    /\ nrn_t < simulation_time
    /\ \E h \in 1 .. (simulation_time - nrn_t), v \in Voltages :
          /\ nrn_t' = nrn_t + h
          /\ nrn_v' = v
          /\ rec_t' = step_record(rec_t, nrn_t + h)
          /\ rec_v' = step_record(rec_v, v)
    /\ UNCHANGED << sim_pc, simulation_time, noise_amplitude, discard, t_err,
                    cvode_active, noise, i, stim_amp, sim_rng, time, voltage >>

\* (a number of samples without the one added to the quotient)
NoSpareSample(T) == ceil_div(T, dt)

\* number of noise samples drawn, int(np.ceil(simulation_time/nrn.dt)) + 1
n_steps(T) == ceil_div(T, dt) + 1

\* noise_amplitude != 0: cvode.active(0); the noise clamp; nrn.dt = dt;
\* finitialize; init; the noise drawn from the process-global generator; i = 0
init_fixed ==
    /\ UNCHANGED simOther
    /\ sim_pc = "recording"
    /\ noise_amplitude # 0
    /\ cvode_active' = FALSE
    /\ nrn_t' = 0
    /\ t_err' = 0
    /\ nrn_v' = v_init
    /\ rec_t' = finitialize_record(finitialize_record(rec_t, 0), 0)
    /\ rec_v' = finitialize_record(finitialize_record(rec_v, v_init), v_init)
    /\ noise' = normal(sim_rng, n_steps(simulation_time))
    /\ sim_rng' = TwistN(sim_rng, n_steps(simulation_time))
    /\ i' = 0
    /\ sim_pc' = "loop"
    /\ UNCHANGED << simulation_time, noise_amplitude, discard, stim_amp, time, voltage >>

\* nrn.t < T for the floating-point nrn.t: below T to the nearest tick, or at
\* T's tick with a negative accumulated rounding error
time_before(t, err, T) == t < T \/ (t = T /\ err < 0)

\* the accumulated rounding error after one more floating-point `t += dt`: the
\* sum is rounded up, down, or is exact; the total stays far below one step
rounded(err) == {e \in {err - 1, err, err + 1} : e >= -MaxErr /\ e <= MaxErr}

\* one pass of `while nrn.t < simulation_time`: noise_stim.amp = noise[i];
\* nrn.fadvance(); i += 1.  noise[i] past the end of the array is an IndexError.
fadvance ==
    /\ UNCHANGED simOther
    /\ sim_pc = "loop"
    /\ time_before(nrn_t, t_err, simulation_time)
    /\ IF i >= Len(noise)
       THEN /\ sim_pc' = "IndexError"
            /\ UNCHANGED << nrn_t, t_err, nrn_v, rec_t, rec_v, i, stim_amp >>
       ELSE /\ stim_amp' = noise[i + 1]
            /\ nrn_t' = nrn_t + dt
            /\ t_err' \in rounded(t_err)
            /\ \E v \in Voltages :
                  /\ nrn_v' = v
                  /\ rec_v' = step_record(rec_v, v)
            /\ rec_t' = step_record(rec_t, nrn_t + dt)
            /\ i' = i + 1
            /\ UNCHANGED sim_pc
    /\ UNCHANGED << simulation_time, noise_amplitude, discard, cvode_active, noise,
                    sim_rng, time, voltage >>

\* run_simulation is over: neuron.run has reached tstop, or the while loop ended
run_simulation_return ==
    /\ UNCHANGED simOther
    /\ sim_pc \in {"run", "loop"}
    /\ ~time_before(nrn_t, t_err, simulation_time)
    /\ sim_pc' = "ran"
    /\ UNCHANGED << simulation_time, noise_amplitude, discard, nrn_t, t_err, nrn_v,
                    cvode_active, rec_t, rec_v, noise, i, stim_amp, sim_rng, time, voltage >>

\* the masks of tabak's return statement
\* (a mask computed from the voltage array instead of the time array)
WrongArrayMask(t, v, d) == [k \in 1 .. Len(v) |-> v[k] > d]

\* time > discard, as used to cut the time array
time_mask(t, v, d) == [k \in 1 .. Len(t) |-> t[k] > d]

\* time > discard, as used to cut the voltage array
voltage_mask(t, v, d) == [k \in 1 .. Len(t) |-> t[k] > d]

\* return time[time > discard], voltage[time > discard]
tabak_return ==
    /\ UNCHANGED simOther
    /\ sim_pc = "ran"
    /\ time' = BoolIndex(rec_t, time_mask(rec_t, rec_v, discard))
    /\ voltage' = BoolIndex(rec_v, voltage_mask(rec_t, rec_v, discard))
    /\ sim_pc' = "returned"
    /\ UNCHANGED << simulation_time, noise_amplitude, discard, nrn_t, t_err, nrn_v,
                    cvode_active, rec_t, rec_v, noise, i, stim_amp, sim_rng >>

SimInit ==
    /\ sim_pc = "tabak"
    /\ simulation_time \in 1 .. MaxSimTime
    /\ noise_amplitude \in {0, analysis_noise_amplitude}
    /\ discard \in 0 .. MaxDiscard
    /\ nrn_t = 0
    /\ t_err = 0
    /\ nrn_v = v_init
    /\ cvode_active = FALSE
    /\ rec_t = << >>
    /\ rec_v = << >>
    /\ noise = << >>
    /\ i = 0
    /\ stim_amp = 0
    /\ sim_rng = seed(np_random_seed)
    /\ time = << >>
    /\ voltage = << >>

LinkIdle ==
    /\ import_idx = 0
    /\ link_calls = {}
    /\ link_errors = {}

NoRun == [parameters |-> << >>, results |-> << >>, returned |-> << >>]

\* the main process right after `import analysis`: the generator is seeded
Imported ==
    /\ rng = seed(np_random_seed)
    /\ parameters = << >>
    /\ wrng = << >>
    /\ wtask = << >>
    /\ next_task = 1
    /\ results = << >>
    /\ received = 0
    /\ burstiness_factors = << >>
    /\ returned = << >>
    /\ sweep = << >>
    /\ fs = << >>
    /\ generated = << >>
    /\ loaded = << >>
    /\ error = ""
    /\ first = NoRun
    /\ collected = << >>

PoolIdle ==
    /\ pc = "idle"
    /\ exec = 1
    /\ cpu_count = 1
    /\ call = 1
    /\ Imported

SimNext ==
    \/ record
    \/ init_adaptive
    \/ cvode_step
    \/ init_fixed
    \/ fadvance
    \/ run_simulation_return
    \/ tabak_return

\* one call of tabak, for every simulation_time, noise_amplitude and discard
SimSpecInit == SimInit /\ LinkIdle /\ PoolIdle

SpecSim == SimSpecInit /\ [][SimNext]_vars

(***************************************************************************)
(* code/analysis.py resolved against code/tabak.py: the names analysis.py  *)
(* imports from tabak and the calls it makes into it, each resolved the    *)
(* way Python resolves it (a missing name is an ImportError or NameError,  *)
(* an argument that does not bind to the signature is a TypeError).        *)
(***************************************************************************)

\* the module-level names code/tabak.py defines
tabak_module_names ==
    {"np", "neuron", "nrn", "dt", "A", "scale_conductance", "c", "alpha",
     "g_l_scaled", "g_K_scaled", "g_Ca_scaled", "g_SK_scaled", "create_soma",
     "insert_current_clamp", "run_simulation", "record", "tabak"}

\* def scale_conductance(G_x)
scale_conductance_signature ==
    [params |-> << "G_x" >>, required |-> {"G_x"}]

\* def tabak(g_l=, e_pas=, g_K=, g_Ca=, g_SK=, g_BK=, tau_BK=, simulation_time=,
\*           noise_amplitude=, discard=, stimulus_amplitude=)
tabak_signature ==
    [params |-> << "g_l", "e_pas", "g_K", "g_Ca", "g_SK", "g_BK", "tau_BK",
                   "simulation_time", "noise_amplitude", "discard",
                   "stimulus_amplitude" >>,
     required |-> {}]

signature(f) ==
    CASE f = "scale_conductance" -> scale_conductance_signature
      [] f = "tabak" -> tabak_signature

\* from tabak import ... (analysis.py lines 12 and 13), in order
analysis_imports ==
    << "scale_conductance", "tabak", "scale_capacitance", "scale_alpha",
       "scale_tabak", "G_l", "G_K", "G_SK", "G_Ca", "C", "Alpha" >>

\* the calls analysis.py makes into tabak: the callee, the number of positional
\* arguments and the keywords written at the call site
analysis_calls ==
    { [line |-> 121, callee |-> "scale_conductance", npos |-> 2, kws |-> {}],
      [line |-> 123, callee |-> "scale_tabak", npos |-> 1, kws |-> {}],
      [line |-> 189, callee |-> "scale_capacitance", npos |-> 2, kws |-> {}],
      [line |-> 190, callee |-> "scale_alpha", npos |-> 2, kws |-> {}],
      [line |-> 92, callee |-> "tabak", npos |-> 0,
       kws |-> {"noise_amplitude", "discard", "simulation_time", "g_BK", "A", "dt"}],
      [line |-> 192, callee |-> "tabak", npos |-> 0,
       kws |-> {"noise_amplitude", "discard", "simulation_time", "g_BK", "g_K",
                "g_Ca", "g_SK", "g_l", "c", "alpha", "A", "dt"}],
      [line |-> 304, callee |-> "tabak", npos |-> 0,
       kws |-> {"noise_amplitude", "discard", "simulation_time", "A", "dt"}] }

Range(seq) == {seq[k] : k \in 1 .. Len(seq)}

\* Python's binding of a call to a signature without *args or **kwargs
binds(sig, npos, kws) ==
    /\ npos <= Len(sig.params)
    /\ kws \subseteq Range(sig.params)
    /\ \A k \in 1 .. npos : k <= Len(sig.params) => sig.params[k] \notin kws
    /\ \A r \in sig.required :
          \/ r \in kws
          \/ \E k \in 1 .. npos : k <= Len(sig.params) /\ sig.params[k] = r

\* is the name there for `from tabak import name`, or for a call
module_defines(name) == name \in tabak_module_names

\* the next name of the import statements is looked up in tabak
import_name ==
    /\ UNCHANGED << simVars, poolVars >>
    /\ import_idx < Len(analysis_imports)
    /\ import_idx' = import_idx + 1
    /\ link_errors' =
          IF module_defines(analysis_imports[import_idx + 1])
          THEN link_errors
          ELSE link_errors \cup
                  {[error |-> "ImportError", at |-> analysis_imports[import_idx + 1]]}
    /\ UNCHANGED link_calls

\* one call site of analysis.py is executed
call_site ==
    /\ UNCHANGED << simVars, poolVars >>
    /\ \E cs \in analysis_calls :
          /\ cs.line \notin link_calls
          /\ link_calls' = link_calls \cup {cs.line}
          /\ link_errors' =
                IF ~module_defines(cs.callee)
                THEN link_errors \cup {[error |-> "NameError", at |-> cs.callee]}
                ELSE IF ~binds(signature(cs.callee), cs.npos, cs.kws)
                THEN link_errors \cup {[error |-> "TypeError", at |-> cs.callee]}
                ELSE link_errors
    /\ UNCHANGED import_idx

SimIdle ==
    /\ sim_pc = "idle"
    /\ simulation_time = 0
    /\ noise_amplitude = 0
    /\ discard = 0
    /\ nrn_t = 0
    /\ t_err = 0
    /\ nrn_v = v_init
    /\ cvode_active = FALSE
    /\ rec_t = << >>
    /\ rec_v = << >>
    /\ noise = << >>
    /\ i = 0
    /\ stim_amp = 0
    /\ sim_rng = seed(np_random_seed)
    /\ time = << >>
    /\ voltage = << >>

LinkNext ==
    \/ import_name
    \/ call_site

\* every import and every call of analysis.py into tabak, resolved one by one
LinkInit == SimIdle /\ LinkIdle /\ PoolIdle

SpecLink == LinkInit /\ [][LinkNext]_vars

(***************************************************************************)
(* code/analysis.py: robustness, tabak_parallel and the multiprocessing    *)
(* pool.  Conductance densities are in units of 0.05 nS per cell area, so  *)
(* that half of a scaled conductance is a whole number.                    *)
(***************************************************************************)
poolOther == << simVars, linkVars >>

\* the result slot of a task submitted to the pool
\* (bf: the value returned; noise: the samples run_simulation injected)
\* (kw: the named arguments tabak was called with)
NoArgs == [g_BK |-> -1, g_K |-> -1, g_Ca |-> -1, g_SK |-> -1, g_l |-> -1,
           A |-> -1, dt |-> -1]
Pending == [st |-> "pending", bf |-> -1, noise |-> << >>, kw |-> NoArgs]
Raised == [st |-> "raised", bf |-> -1, noise |-> << >>, kw |-> NoArgs]
NoneResult == [st |-> "none", bf |-> -1, noise |-> << >>, kw |-> NoArgs]
Value(b, nz, kw) == [st |-> "value", bf |-> b, noise |-> nz, kw |-> kw]

\* the conductances of Tabak et al. 2011 that analysis.py imports, in tenths of nS
G_l_nS == 2
G_K_nS == 30
G_Ca_nS == 20
G_SK_nS == 20

\* the G_BK values of generate_data_figure_2, in tenths of nS: 0, 0.5, 1
G_BKs == << 0, 5, 10 >>

\* rescale a conductance (nS) to a conductance density for a cell of the given area
scale_conductance(G_x, area) == (2 * G_x) \div area

\* hist_range = (0, 1), in tenths
hist_range == << 0, 10 >>

\* (a draw that can reach the upper end of the interval)
ClosedUniform(low, high, s) == low + ((high - low) * (s % 4)) \div 3

\* np.random.uniform(low, high): the sample drawn in generator state s; the
\* generator's output is one of four levels of [low, high)
uniform_sample(low, high, s) == low + ((high - low) * (s % 4)) \div 4

\* np.random.uniform(low, high, n): n samples drawn from state s on
uniform(low, high, n, s) ==
    [k \in 1 .. n |-> uniform_sample(low, high, TwistN(s, k - 1))]

SeqSumUpTo(seq, n) == 
    LET RECURSIVE S(_)
        S(k) == IF k = 0 THEN 0 ELSE seq[k] + S(k - 1)
    IN S(n)

SeqSum(seq) == SeqSumUpTo(seq, Len(seq))

\* The burstiness factor (tenths) of one noisy run: the engine's trace, the
\* event durations and the fraction of bursts, as one deterministic function of
\* the conductances handed to the simulator and of the injected noise samples.
simulated_burstiness(kw, nz) ==
    (4 * (kw.g_BK \div 10) + kw.g_K \div 15 + kw.g_Ca \div 10 + kw.g_SK \div 10
       + kw.g_l + SeqSum(nz)) % 11

\* (a reading of the row that exchanges the g_K and g_Ca columns)
SwappedColumns(row) ==
    [g_BK |-> row[1], g_K |-> row[3], g_Ca |-> row[2], g_SK |-> row[4],
     g_l |-> row[5], A |-> row[6], dt |-> row[7]]

\* the named arguments of the tabak call in tabak_parallel: parameters[0] is
\* passed as g_BK, [1] as g_K, [2] as g_Ca, [3] as g_SK, [4] as g_l, [5] as A
\* and [6] as dt
tabak_kwargs(row) ==
    [g_BK |-> row[1], g_K |-> row[2], g_Ca |-> row[3], g_SK |-> row[4],
     g_l |-> row[5], A |-> row[6], dt |-> row[7]]

\* tabak_parallel(parameters) run in a process whose generator is in state s:
\* the row is unpacked into named arguments, run_simulation draws the noise
\* from the process-global generator, and the burstiness factor is returned.
tabak_parallel(row, s) ==
    LET kw == tabak_kwargs(row)
        n  == n_steps(TaskSimTime)
    IN  [bf    |-> simulated_burstiness(kw, normal(s, n)),
         noise |-> normal(s, n),
         kw    |-> kw,
         rng   |-> TwistN(s, n)]

\* robustness: the scaled original conductances and the four uniform draws of
\* robustness_reruns values each, in the order g_K, g_Ca, g_SK, g_l, each from
\* [0.5, 1.5) times its scaled original
robustness_draws(area, s) ==
    LET n == robustness_reruns
        g_l_scaled  == scale_conductance(G_l_nS, area)
        g_K_scaled  == scale_conductance(G_K_nS, area)
        g_Ca_scaled == scale_conductance(G_Ca_nS, area)
        g_SK_scaled == scale_conductance(G_SK_nS, area)
    IN  [g_K  |-> uniform((g_K_scaled * 5) \div 10, (g_K_scaled * 15) \div 10, n, s),
         g_Ca |-> uniform((g_Ca_scaled * 5) \div 10, (g_Ca_scaled * 15) \div 10, n,
                          TwistN(s, n)),
         g_SK |-> uniform((g_SK_scaled * 5) \div 10, (g_SK_scaled * 15) \div 10, n,
                          TwistN(s, 2 * n)),
         g_l  |-> uniform((g_l_scaled * 5) \div 10, (g_l_scaled * 15) \div 10, n,
                          TwistN(s, 3 * n))]

\* robustness, up to the parameter array: the columns g_BKs, As, dts of
\* robustness_reruns equal values, and
\* np.array([g_BKs, g_K, g_Ca, g_SK, g_l, As, dts]).T, whose rows are
\* [g_BK, g_K, g_Ca, g_SK, g_l, A, dt]
robustness_rows(g_BK, area, step, s) ==
    LET d == robustness_draws(area, s)
    IN  [k \in 1 .. robustness_reruns |->
            << g_BK, d.g_K[k], d.g_Ca[k], d.g_SK[k], d.g_l[k], area, step >>]

robustness_begin ==
    /\ UNCHANGED poolOther
    /\ pc = "robustness"
    /\ parameters' = robustness_rows(scale_conductance(G_BKs[call], A), A, dt, rng)
    /\ rng' = TwistN(rng, 4 * robustness_reruns)
    /\ pc' = "pool"
    /\ UNCHANGED << exec, cpu_count, call, wrng, wtask, next_task, results, received,
                    burstiness_factors, returned, sweep, fs, generated, loaded,
                    error, first, collected >>

\* processes = mp.cpu_count() - 2
pool_processes(n) == n - 2

\* pool = mp.Pool(processes): Pool raises ValueError unless processes >= 1;
\* the workers are forked from the main process and start with a copy of its
\* memory, the state of np.random included.  imap queues every row.
pool_create ==
    /\ UNCHANGED poolOther
    /\ pc = "pool"
    /\ IF pool_processes(cpu_count) < 1
       THEN /\ pc' = "error"
            /\ error' = "ValueError"
            /\ UNCHANGED << wrng, wtask, next_task, results, received,
                            burstiness_factors >>
       ELSE /\ wrng' = [w \in 1 .. pool_processes(cpu_count) |-> rng]
            /\ wtask' = [w \in 1 .. pool_processes(cpu_count) |-> 0]
            /\ next_task' = 1
            /\ results' = [k \in 1 .. Len(parameters) |-> Pending]
            /\ received' = 0
            /\ burstiness_factors' = << >>
            /\ pc' = "collect"
            /\ UNCHANGED error
    /\ UNCHANGED << exec, cpu_count, call, rng, parameters, returned, sweep, fs,
                    generated, loaded, first, collected >>

\* an idle worker takes the next queued task
task_start ==
    /\ UNCHANGED poolOther
    /\ pc = "collect"
    /\ next_task <= Len(parameters)
    /\ \E w \in 1 .. Len(wtask) :
          /\ wtask[w] = 0
          /\ wtask' = [wtask EXCEPT ![w] = next_task]
    /\ next_task' = next_task + 1
    /\ UNCHANGED << pc, exec, cpu_count, call, rng, parameters, wrng, results,
                    received, burstiness_factors, returned, sweep, fs, generated,
                    loaded, error, first, collected >>

\* a worker finishes its task: tabak_parallel returns in that process
task_finish ==
    /\ UNCHANGED poolOther
    /\ pc = "collect"
    /\ \E w \in 1 .. Len(wtask) :
          /\ wtask[w] # 0
          /\ LET out == tabak_parallel(parameters[wtask[w]], wrng[w])
             IN  /\ results' = [results EXCEPT ![wtask[w]] =
                                      Value(out.bf, out.noise, out.kw)]
                 /\ wrng' = [wrng EXCEPT ![w] = out.rng]
          /\ wtask' = [wtask EXCEPT ![w] = 0]
    /\ UNCHANGED << pc, exec, cpu_count, call, rng, parameters, next_task, received,
                    burstiness_factors, returned, sweep, fs, generated, loaded,
                    error, first, collected >>

\* a worker's task raises (an error of the simulator or of a numeric library):
\* the pool sends the exception back as that task's result
task_raise ==
    /\ UNCHANGED poolOther
    /\ pc = "collect"
    /\ \E w \in 1 .. Len(wtask) :
          /\ wtask[w] # 0
          /\ results' = [results EXCEPT ![wtask[w]] = Raised]
          /\ wtask' = [wtask EXCEPT ![w] = 0]
    /\ UNCHANGED << pc, exec, cpu_count, call, rng, parameters, wrng, next_task,
                    received, burstiness_factors, returned, sweep, fs, generated,
                    loaded, error, first, collected >>

\* what the iterator of pool.imap yields for a task's result: the exception of
\* a task that raised is raised again in the main process
\* (an iterator that yielded None for a task that raised)
YieldNoneForRaised(r) ==
    [raise |-> FALSE, value |-> IF r.st = "raised" THEN NoneResult ELSE r]

imap_yield(r) == [raise |-> r.st = "raised", value |-> r]

\* one pass of the for loop over pool.imap: the next result in task order is
\* awaited; an exception is re-raised in the main process, any other result
\* that is not None is appended.
imap_next ==
    /\ UNCHANGED poolOther
    /\ pc = "collect"
    /\ received < Len(parameters)
    /\ results[received + 1].st # "pending"
    /\ LET y == imap_yield(results[received + 1])
       IN  IF y.raise
           THEN /\ pc' = "error"
                /\ error' = "TaskError"
                /\ UNCHANGED << received, burstiness_factors >>
           ELSE /\ received' = received + 1
                \* if burstiness_factor is not None: append
                /\ burstiness_factors' =
                      IF y.value.st = "none"
                      THEN burstiness_factors
                      ELSE Append(burstiness_factors, y.value.bf)
                /\ UNCHANGED << pc, error >>
    /\ UNCHANGED << exec, cpu_count, call, rng, parameters, wrng, wtask, next_task,
                    results, returned, sweep, fs, generated, loaded, first, collected >>

\* np.histogram(values, bins = n, range = (lo, hi)): the n + 1 bin edges
histogram_edges(n, lo, hi) == [k \in 1 .. n + 1 |-> lo + ((k - 1) * (hi - lo)) \div n]

\* (a binning whose last bin is open on the right, like the others)
OpenLastBin(x, n, lo, hi) == ((x - lo) * n) \div (hi - lo) + 1

\* the bin (1 .. n) of a value of [lo, hi]; the last bin is closed on the right
histogram_bin(x, n, lo, hi) == IF x = hi THEN n ELSE ((x - lo) * n) \div (hi - lo) + 1

histogram_counts(values, n, lo, hi) ==
    [b \in 1 .. n |->
        Cardinality({k \in 1 .. Len(values) :
                        /\ lo <= values[k]
                        /\ values[k] <= hi
                        /\ histogram_bin(values[k], n, lo, hi) = b})]

\* len(np.where(cond)[0]) / len(values), kept as numerator and denominator
fraction(hits, values) == [num |-> Cardinality(hits), den |-> Len(values)]

\* (a loop that stopped at the first result)
FirstResultIsEnough(n, total) == n >= 1

\* the for loop over pool.imap ends when the iterator is exhausted

loop_exhausted(n, total) == n = total

\* the loop is over: pool.close(), the histogram, the two fractions, and
\* `return bins, binned_burstiness_factors, bursters, spikers`
robustness_return ==
    /\ UNCHANGED poolOther
    /\ pc = "collect"
    /\ loop_exhausted(received, Len(parameters))
    /\ Len(burstiness_factors) > 0
    /\ LET bfs == burstiness_factors
           binned_burstiness_factors ==
               histogram_counts(bfs, bins, hist_range[1], hist_range[2])
           edges == histogram_edges(bins, hist_range[1], hist_range[2])
           bursters == fraction({k \in 1 .. Len(bfs) : bfs[k] > 5}, bfs)
           spikers  == fraction({k \in 1 .. Len(bfs) : bfs[k] < 3}, bfs)
       IN  returned' = << edges, binned_burstiness_factors, bursters, spikers >>
    /\ collected' = Append(collected, [g_BK |-> parameters[1][1],
                                       burstiness_factors |-> burstiness_factors])
    /\ pc' = "returned"
    /\ UNCHANGED << exec, cpu_count, call, rng, parameters, wrng, wtask, next_task,
                    results, received, burstiness_factors, sweep, fs, generated,
                    loaded, error, first >>

(***************************************************************************)
(* code/analysis.py: generate_data_figure_2 and load_results_figure_2.     *)
(* A path is a folder, a file name and an extension; an array is its dtype *)
(* and its elements; a .npy file is a header and the raw elements.         *)
(***************************************************************************)
data_folder == "data"

\* os.path.join(data_folder, name)
path_join(folder, name, ext) == [folder |-> folder, name |-> name, ext |-> ext]

\* the file np.save writes to: ".npy" is appended unless the name ends in it
npy_file(path) ==
    IF path.ext = ".npy" THEN path
    ELSE [path EXCEPT !.name = path.name \o path.ext, !.ext = ".npy"]

\* the .npy encoding of an array
npy_encode(arr) ==
    [magic |-> "NUMPY", descr |-> arr.dtype, shape |-> Len(arr.data),
     payload |-> [k \in 1 .. Len(arr.data) |-> arr.data[k]]]

npy_decode(file) ==
    [dtype |-> file.descr, data |-> SubSeq(file.payload, 1, file.shape)]

WriteFile(files, path, contents) ==
    [q \in (DOMAIN files) \cup {path} |-> IF q = path THEN contents ELSE files[q]]

\* np.save(path, arr)
np_save(files, path, arr) == WriteFile(files, npy_file(path), npy_encode(arr))

\* np.load(path)
np_load(files, path) == npy_decode(files[path])

float64(data) == [dtype |-> "float64", data |-> data]
int64(data) == [dtype |-> "int64", data |-> data]

\* `bins_x, binned_burstiness_factors_x, bursters_x, spikers_x = robustness(...)`
\* for the three G_BK values in turn
unpack_robustness ==
    /\ UNCHANGED poolOther
    /\ pc = "returned"
    /\ sweep' = Append(sweep, [bins |-> float64(returned[1]),
                               binned_burstiness_factors |-> int64(returned[2]),
                               bursters |-> returned[3],
                               spikers |-> returned[4]])
    /\ IF call < Len(G_BKs)
       THEN /\ call' = call + 1
            /\ pc' = "robustness"
       ELSE /\ pc' = "write"
            /\ UNCHANGED call
    /\ UNCHANGED << exec, cpu_count, rng, parameters, wrng, wtask, next_task, results,
                    received, burstiness_factors, returned, fs, generated, loaded,
                    error, first, collected >>

\* (a report whose two labels are exchanged)
SwappedLabels(sw) ==
    [c \in 1 .. Len(sw) |->
        [title |-> G_BKs[c], Spikers |-> sw[c].bursters, Bursters |-> sw[c].spikers]]

\* the text report: for each G_BK a title line, a Spikers line, a Bursters line
report_text(sw) ==
    [c \in 1 .. Len(sw) |->
        [title |-> G_BKs[c], Spikers |-> sw[c].spikers, Bursters |-> sw[c].bursters]]

\* os.path.join(data_folder, output_file), output_file="robustness.txt"
report_file == path_join(data_folder, "robustness", ".txt")

\* with open(os.path.join(data_folder, output_file), "w") as output: ...
write_report ==
    /\ UNCHANGED poolOther
    /\ pc = "write"
    /\ fs' = WriteFile(fs, report_file, report_text(sweep))
    /\ pc' = "save"
    /\ UNCHANGED << exec, cpu_count, call, rng, parameters, wrng, wtask, next_task,
                    results, received, burstiness_factors, returned, sweep,
                    generated, loaded, error, first, collected >>

\* the names the six arrays are saved under, in the order of the np.save calls
save_names ==
    << "bins_0", "bins_05", "bins_1", "binned_burstiness_factors_0",
       "binned_burstiness_factors_05", "binned_burstiness_factors_1" >>

\* (the histograms of G_BK = 0 and G_BK = 1 loaded from each other's file)
SwappedLoadNames ==
    << "bins_0", "bins_05", "bins_1", "binned_burstiness_factors_1",
       "binned_burstiness_factors_05", "binned_burstiness_factors_0" >>

\* the names the six arrays are loaded from, in the order of the np.load calls
load_names ==
    << "bins_0", "bins_05", "bins_1", "binned_burstiness_factors_0",
       "binned_burstiness_factors_05", "binned_burstiness_factors_1" >>

\* the six arrays of generate_data_figure_2, in the order saved and returned
figure_2_arrays(sw) ==
    << sw[1].bins, sw[2].bins, sw[3].bins, sw[1].binned_burstiness_factors,
       sw[2].binned_burstiness_factors, sw[3].binned_burstiness_factors >>

RECURSIVE save_all(_, _, _)
save_all(files, arrays, k) ==
    IF k > Len(arrays) THEN files
    ELSE save_all(np_save(files, path_join(data_folder, save_names[k], ""), arrays[k]),
                  arrays, k + 1)

\* the six np.save calls and the return of generate_data_figure_2
save_arrays ==
    /\ UNCHANGED poolOther
    /\ pc = "save"
    /\ fs' = save_all(fs, figure_2_arrays(sweep), 1)
    /\ generated' = figure_2_arrays(sweep)
    /\ pc' = "generated"
    /\ UNCHANGED << exec, cpu_count, call, rng, parameters, wrng, wtask, next_task,
                    results, received, burstiness_factors, returned, sweep, loaded,
                    error, first, collected >>

\* load_results_figure_2: the six np.load calls and the return
load_results_figure_2 ==
    /\ UNCHANGED poolOther
    /\ pc = "generated"
    /\ loaded' = [k \in 1 .. Len(load_names) |->
                     np_load(fs, path_join(data_folder, load_names[k], ".npy"))]
    /\ pc' = "loaded"
    /\ UNCHANGED << exec, cpu_count, call, rng, parameters, wrng, wtask, next_task,
                    results, received, burstiness_factors, returned, sweep, fs,
                    generated, error, first, collected >>

\* the program is started a second time on the same machine, with the same
\* arguments: a fresh process, whose import seeds the generator again
run_again ==
    /\ UNCHANGED poolOther
    /\ pc = "returned"
    /\ exec = 1
    /\ first' = [parameters |-> parameters, results |-> results, returned |-> returned]
    /\ exec' = 2
    /\ pc' = "robustness"
    /\ rng' = seed(np_random_seed)
    /\ parameters' = << >>
    /\ wrng' = << >>
    /\ wtask' = << >>
    /\ next_task' = 1
    /\ results' = << >>
    /\ received' = 0
    /\ burstiness_factors' = << >>
    /\ returned' = << >>
    /\ UNCHANGED << cpu_count, call, sweep, fs, generated, loaded, error, collected >>

\* figure_2 on a machine with any number of CPUs
Init ==
    /\ SimIdle
    /\ LinkIdle
    /\ pc = "robustness"
    /\ exec = 1
    /\ cpu_count \in 1 .. MaxCpu
    /\ call = 1
    /\ Imported

Next ==
    \/ robustness_begin
    \/ pool_create
    \/ task_start
    \/ task_finish
    \/ task_raise
    \/ imap_next
    \/ robustness_return
    \/ unpack_robustness
    \/ write_report
    \/ save_arrays
    \/ load_results_figure_2

\* generate_data_figure_2 followed by load_results_figure_2
Spec == Init /\ [][Next]_vars

\* robustness with any one G_BK of the sweep, executed twice
ReproInit ==
    /\ SimIdle
    /\ LinkIdle
    /\ pc = "robustness"
    /\ exec = 1
    /\ cpu_count \in 1 .. MaxCpu
    /\ call \in 1 .. Len(G_BKs)
    /\ Imported

ReproNext ==
    \/ robustness_begin
    \/ pool_create
    \/ task_start
    \/ task_finish
    \/ task_raise
    \/ imap_next
    \/ robustness_return
    \/ run_again

SpecRepro == ReproInit /\ [][ReproNext]_vars

(***************************************************************************)
(* Claims about one call of tabak (checked under SpecSim).                 *)
(***************************************************************************)
StrictlyIncreasing(seq) == \A k \in 1 .. Len(seq) - 1 : seq[k] < seq[k + 1]

\* the recorded samples that lie after the discarded part
LaterSamples == {j \in 1 .. Len(rec_t) : rec_t[j] > discard}

\* C1: the returned time and voltage arrays have the same length, and element k
\* of voltage is the sample that was recorded together with element k of time.
C1_TraceAligned ==
    sim_pc = "returned" =>
        /\ Len(time) = Len(voltage)
        /\ Len(rec_t) = Len(rec_v)
        /\ \A k \in 1 .. Len(time) :
              \E j \in 1 .. Len(rec_t) : rec_t[j] = time[k] /\ rec_v[j] = voltage[k]

\* a returned trace of several samples with different voltages, part of the
\* recording having been cut away
C1_Witness ==
    /\ sim_pc = "returned"
    /\ Len(time) >= 2
    /\ Len(time) < Len(rec_t)
    /\ voltage[1] # voltage[2]

\* C9: recorded time only moves forward, and the returned time array is
\* strictly increasing.
C9_TimeStrictlyIncreasing ==
    /\ StrictlyIncreasing(rec_t)
    /\ sim_pc = "returned" => StrictlyIncreasing(time)

\* a returned trace of at least three samples, from either integration branch
C9_Witness ==
    /\ sim_pc = "returned"
    /\ Len(time) >= 3
    /\ discard > 0

\* C10 (as claimed): every sample recorded after the first `discard` ms is kept,
\* and with discard = 0 nothing is dropped: the returned trace is the whole
\* recording, the initial sample at t = 0 included.
C10_DiscardOptional ==
    sim_pc = "returned" =>
        /\ \A j \in LaterSamples :
              \E k \in 1 .. Len(time) : time[k] = rec_t[j] /\ voltage[k] = rec_v[j]
        /\ \A k \in 1 .. Len(time) : time[k] >= discard
        /\ discard = 0 => time = rec_t /\ voltage = rec_v

(***************************************************************************)
(* Claims about the linkage of analysis.py and tabak.py (under SpecLink).  *)
(***************************************************************************)
\* C2 (as claimed): every name analysis.py imports from tabak is defined there
\* and every call it makes into tabak binds: no import or argument error.
C2_SimulatorAcceptsAnalysis == link_errors = {}

(***************************************************************************)
(* Claims about the robustness sweep.                                      *)
(***************************************************************************)
\* some task of the current robustness call has raised
SomeTaskRaised == \E k \in 1 .. Len(results) : results[k].st = "raised"

\* C3 (as claimed, under SpecRepro): what tabak_parallel computes for a
\* parameter row depends on that row alone: the same row, run in two
\* executions, is simulated with the same noise and yields the same burstiness
\* factor, whichever worker ran it and whatever that worker ran before.
C3_TaskDependsOnRowOnly ==
    \A k \in 1 .. Len(results) :
        ( /\ exec = 2
          /\ k <= Len(first.results)
          /\ parameters[k] = first.parameters[k]
          /\ results[k].st = "value"
          /\ first.results[k].st = "value" )
        => /\ results[k].noise = first.results[k].noise
           /\ results[k].bf = first.results[k].bf

\* C4 (under Spec): when robustness has computed its statistics, the results of
\* all robustness_reruns submitted tasks have been received from the pool.
C4_StatisticsAfterAllResults ==
    pc = "returned" =>
        /\ Len(parameters) = robustness_reruns
        /\ received = robustness_reruns
        /\ \A k \in 1 .. robustness_reruns : results[k].st = "value"
        /\ Len(burstiness_factors) = robustness_reruns
        /\ returned[3].den = robustness_reruns
        /\ returned[4].den = robustness_reruns

\* the third robustness call returns on a machine whose pool has two workers
C4_Witness ==
    /\ pc = "returned"
    /\ call = Len(G_BKs)
    /\ Len(wrng) >= 2
    /\ received = robustness_reruns

\* C5 (under Spec): once a task of a robustness call has raised, that call
\* returns no statistics (the run either still collects or has ended with the
\* task's error), and generate_data_figure_2 writes no file and returns nothing.
C5_TaskErrorPropagates ==
    SomeTaskRaised =>
        /\ pc \in {"collect", "error"}
        /\ pc = "error" => error = "TaskError"
        /\ Len(sweep) = call - 1
        /\ DOMAIN fs = {}
        /\ generated = << >>
        /\ loaded = << >>

\* the third robustness call is ended by a task's error, after two calls that
\* returned statistics: nothing is on disk
C5_Witness ==
    /\ pc = "error"
    /\ error = "TaskError"
    /\ SomeTaskRaised
    /\ call = Len(G_BKs)
    /\ Len(sweep) = 2
    /\ DOMAIN fs = {}

\* C6 (as claimed, under Spec): on a machine with any number of CPUs the pool
\* is created with a positive number of processes: robustness never ends in
\* the ValueError of mp.Pool.
C6_PoolOnEveryMachine ==
    /\ ~(pc = "error" /\ error = "ValueError")
    /\ pc \in {"collect", "returned"} => Len(wrng) >= 1

\* C7 (as claimed, under SpecRepro): two executions with the same seed and the
\* same arguments return the same histogram and the same fractions.
C7_RunsReproducible ==
    (exec = 2 /\ pc = "returned") => returned = first.returned

\* C8 (under Spec): load_results_figure_2 returns the six arrays that
\* generate_data_figure_2 returned, in the same order.
C8_SaveLoadRoundTrip ==
    pc = "loaded" =>
        /\ Len(loaded) = 6
        /\ loaded = generated

\* the arrays have been loaded, and the histograms of G_BK = 0 and G_BK = 1 differ
C8_Witness ==
    /\ pc = "loaded"
    /\ Len(loaded) = 6
    /\ generated[4] # generated[6]
    /\ generated[4] # generated[5]

\* the fraction of a list of burstiness factors (tenths) below 0.3, above 0.5
spiker_fraction(bfs) ==
    [num |-> Cardinality({k \in 1 .. Len(bfs) : bfs[k] < 3}), den |-> Len(bfs)]

burster_fraction(bfs) ==
    [num |-> Cardinality({k \in 1 .. Len(bfs) : bfs[k] > 5}), den |-> Len(bfs)]

\* C11 (as claimed, under Spec): robustness returns (bins, binned, spikers,
\* bursters): the third element is the fraction of the collected runs with
\* burstiness factor < 0.3 and the fourth the fraction with factor > 0.5.
C11_ReturnsSpikersThenBursters ==
    pc = "returned" =>
        /\ Len(returned) = 4
        /\ returned[3] = spiker_fraction(burstiness_factors)
        /\ returned[4] = burster_fraction(burstiness_factors)

\* C12 (under Spec): in the written report, the block titled G_BK = 0, 0.5, 1
\* belongs to the robustness call made with that G_BK, its Spikers line is the
\* fraction of that call's runs with burstiness factor < 0.3 and its Bursters
\* line the fraction with factor > 0.5.
C12_ReportLabelsMatch ==
    report_file \in DOMAIN fs =>
        /\ Len(fs[report_file]) = Len(G_BKs)
        /\ Len(collected) = Len(G_BKs)
        /\ \A c \in 1 .. Len(G_BKs) :
              /\ fs[report_file][c].title = G_BKs[c]
              /\ collected[c].g_BK = scale_conductance(G_BKs[c], A)
              /\ fs[report_file][c].Spikers =
                     spiker_fraction(collected[c].burstiness_factors)
              /\ fs[report_file][c].Bursters =
                     burster_fraction(collected[c].burstiness_factors)

\* a written report in which some block has different Spikers and Bursters
\* values, and two blocks differ in both
C12_Witness ==
    /\ report_file \in DOMAIN fs
    /\ \E c \in 1 .. Len(G_BKs) :
          fs[report_file][c].Spikers # fs[report_file][c].Bursters
    /\ \E c, d \in 1 .. Len(G_BKs) :
          /\ fs[report_file][c].Spikers # fs[report_file][d].Spikers
          /\ fs[report_file][c].Bursters # fs[report_file][d].Bursters

\* the rows of the current robustness call are in place and its arguments are
\* those of the current call of the sweep
InCall == pc \in {"pool", "collect", "returned", "error"} /\ parameters # << >>

\* C13 (under Spec): in every row of the parameter array of a robustness call,
\* g_BK is the g_BK argument, A and dt are the A and dt arguments, and each of
\* g_K, g_Ca, g_SK, g_l lies in [0.5, 1.5) times its scaled original value.
\* There are robustness_reruns rows.
C13_RowsWithinRanges ==
    InCall =>
        /\ Len(parameters) = robustness_reruns
        /\ \A k \in 1 .. Len(parameters) :
              LET row == parameters[k]
                  original == << scale_conductance(G_K_nS, A),
                                 scale_conductance(G_Ca_nS, A),
                                 scale_conductance(G_SK_nS, A),
                                 scale_conductance(G_l_nS, A) >>
              IN  /\ Len(row) = 7
                  /\ row[1] = scale_conductance(G_BKs[call], A)
                  /\ row[6] = A
                  /\ row[7] = dt
                  /\ \A j \in 1 .. 4 :
                        /\ 2 * row[j + 1] >= original[j]
                        /\ 2 * row[j + 1] < 3 * original[j]

\* a call with a nonzero g_BK in which each of the four other conductances
\* takes two different values over the rows, one of them the top level
C13_Witness ==
    /\ InCall
    /\ parameters[1][1] > 0
    /\ \A j \in 2 .. 5 : \E k, l \in 1 .. Len(parameters) :
          parameters[k][j] # parameters[l][j]
    /\ \E k \in 1 .. Len(parameters) :
          \/ 4 * parameters[k][3] = 5 * scale_conductance(G_Ca_nS, A)
          \/ 4 * parameters[k][2] = 5 * scale_conductance(G_K_nS, A)

\* the pool of the current robustness call has been created
InRun == pc \in {"collect", "returned"} \/ (pc = "error" /\ results # << >>)

\* the generator state at the start of the current robustness call: each
\* earlier call of the sweep drew 4 * robustness_reruns values
draw_state == TwistN(seed(np_random_seed), 4 * robustness_reruns * (call - 1))

\* C14 (under Spec): every run of tabak_parallel passes the row's values under
\* the names of the columns they were drawn for: g_BK is the call's g_BK, g_K,
\* g_Ca, g_SK, g_l are the k-th values drawn for g_K, g_Ca, g_SK, g_l, and A
\* and dt are the call's A and dt.
C14_ValuesPassedUnderTheirNames ==
    InRun =>
        \A k \in 1 .. Len(results) :
            results[k].st = "value" =>
                results[k].kw =
                    [g_BK |-> scale_conductance(G_BKs[call], A),
                     g_K  |-> robustness_draws(A, draw_state).g_K[k],
                     g_Ca |-> robustness_draws(A, draw_state).g_Ca[k],
                     g_SK |-> robustness_draws(A, draw_state).g_SK[k],
                     g_l  |-> robustness_draws(A, draw_state).g_l[k],
                     A    |-> A,
                     dt   |-> dt]

\* a finished run whose seven arguments are pairwise different where the
\* columns can differ (g_K from g_Ca, g_Ca from g_SK, g_l from A and dt)
C14_Witness ==
    /\ InRun
    /\ \E k \in 1 .. Len(results) :
          /\ results[k].st = "value"
          /\ results[k].kw.g_BK > 0
          /\ results[k].kw.g_K # results[k].kw.g_Ca
          /\ results[k].kw.g_Ca # results[k].kw.g_SK
          /\ results[k].kw.g_SK # results[k].kw.g_l
          /\ results[k].kw.g_l # results[k].kw.A

\* the fixed-step branch of run_simulation has drawn its noise
FixedStep ==
    noise_amplitude # 0 /\ sim_pc \in {"loop", "ran", "returned", "IndexError"}

\* C15 (as claimed, under SpecSim): in the fixed-step loop the index of
\* noise[i] stays within the n_steps pre-drawn samples and the loop ends after
\* at most n_steps - 1 advances, when the simulator time has reached
\* simulation_time.
C15_AtMostNStepsMinusOneAdvances ==
    FixedStep =>
        /\ sim_pc # "IndexError"
        /\ Len(noise) = n_steps(simulation_time)
        /\ time_before(nrn_t, t_err, simulation_time) => i < Len(noise)
        /\ i <= n_steps(simulation_time) - 1
        /\ sim_pc \in {"ran", "returned"} =>
               ~time_before(nrn_t, t_err, simulation_time)

\* C15 (amended, under SpecSim): in the fixed-step loop the index of noise[i]
\* stays within the n_steps pre-drawn samples, and the loop ends after at most
\* n_steps advances (the last one taken when rounding left the simulator time
\* just below simulation_time), when the simulator time has reached
\* simulation_time.
C15_AtMostNStepsAdvances ==
    FixedStep =>
        /\ sim_pc # "IndexError"
        /\ Len(noise) = n_steps(simulation_time)
        /\ time_before(nrn_t, t_err, simulation_time) => i < Len(noise)
        /\ i <= n_steps(simulation_time)
        /\ sim_pc \in {"ran", "returned"} =>
               ~time_before(nrn_t, t_err, simulation_time)

\* a loop that has ended after using the last of the pre-drawn samples
C15_Witness ==
    /\ FixedStep
    /\ sim_pc = "ran"
    /\ i = Len(noise)
    /\ i > 1
    /\ stim_amp = noise[Len(noise)]

\* the value x lies in bin b of the returned edges: [edge b, edge b + 1), the
\* last bin also holding its right edge
in_bin(x, b, edges) ==
    /\ edges[b] <= x
    /\ x < edges[b + 1] \/ (b = Len(edges) - 1 /\ x = edges[b + 1])

\* C16 (under Spec): with every burstiness factor in [0, 1], each collected
\* factor is counted in exactly one of the 10 bins, the bin counts sum to the
\* number of collected factors (robustness_reruns, as no task returned None),
\* both fractions are over that number, no run is both a burster and a
\* spiker, and so the two fractions sum to at most 1.
C16_EveryFactorCountedOnce ==
    (pc = "returned" /\ \A k \in 1 .. Len(burstiness_factors) :
         burstiness_factors[k] \in hist_range[1] .. hist_range[2]) =>
        LET bfs == burstiness_factors
            edges == returned[1]
            counts == returned[2]
        IN  /\ Len(counts) = bins
            /\ Len(edges) = bins + 1
            /\ \A k \in 1 .. Len(bfs) :
                  Cardinality({b \in 1 .. bins : in_bin(bfs[k], b, edges)}) = 1
            /\ \A b \in 1 .. bins :
                  counts[b] = Cardinality({k \in 1 .. Len(bfs) : in_bin(bfs[k], b, edges)})
            /\ SeqSum(counts) = Len(bfs)
            /\ (\A k \in 1 .. Len(results) : results[k].st = "value") =>
                   Len(bfs) = robustness_reruns
            /\ returned[3].den = Len(bfs)
            /\ returned[4].den = Len(bfs)
            /\ \A k \in 1 .. Len(bfs) : ~(bfs[k] > 5 /\ bfs[k] < 3)
            /\ returned[3].num + returned[4].num <= Len(bfs)

\* a returned call whose factors include the right edge 1.0, the left edge 0,
\* a burster below the right edge and a spiker
C16_Witness ==
    /\ pc = "returned"
    /\ \E k \in 1 .. Len(burstiness_factors) : burstiness_factors[k] = hist_range[2]
    /\ \E k \in 1 .. Len(burstiness_factors) : burstiness_factors[k] = hist_range[1]
    /\ \E k \in 1 .. Len(burstiness_factors) : burstiness_factors[k] \in 6 .. 9
    /\ returned[3].num > 0
    /\ returned[4].num > 0

====
